---- MODULE Spec2Model ----
(***************************************************************************)
(* Reconciliation logic of the Turbot Terraform provider: the resource,    *)
(* folder, mod and control lifecycle handlers, parent alias resolution,    *)
(* the diff-suppression predicates, the JSON body normaliser, mod version  *)
(* resolution and the installation poll loop.                              *)
(*                                                                         *)
(* Text encodings used by the model                                        *)
(*   - a version string "1.5.0" is the sequence <<1, 5, 0>>; the empty     *)
(*     string is <<>>; semver.NewVersion accepts one to three numeric      *)
(*     components ("1", "1.5", "1.5.0") and rejects everything else;       *)
(*   - a constraint string is a record [op, v]: "*" is op "any",           *)
(*     "^1.0.0" is op "caret" with v = <<1,0,0>>, ">=1.5.0" is op "ge",    *)
(*     "=1.0.0" is op "eq"; any other op does not parse;                   *)
(*   - a JSON text is a sequence of tokens (see the body normaliser).      *)
(***************************************************************************)
EXTENDS Integers, Sequences, FiniteSets, TLC

VARIABLES
    kind,     \* entity kind handled in this behaviour
    d,        \* *schema.ResourceData: the local state of the entity
    remote,   \* the remote system as seen through apiclient.Client
    pc,       \* position of the running handler ("idle" between handlers)
    w,        \* locals of modInstall / waitForInstallation while it runs
    last,     \* what the last completed handler did and returned
    diff,     \* the last DiffSuppressFunc call and its result
    ver,      \* version-resolution harness: inputs and result
    txt       \* body-normaliser harness: inputs and result

vars == <<kind, d, remote, pc, w, last, diff, ver, txt>>

----------------------------------------------------------------------------
(* Errors.  nil is "nil"; the rest name the error a call returned.          *)

NoErr == "nil"
ErrNotFound == "NotFound"
ErrTransport == "Transport"
ErrTimeout == "Turbot mod installation timed out"
ErrConstraint == "InvalidConstraint"
ErrVersion == "InvalidSemanticVersion"
ErrJson == "JsonSyntax"

NotFoundError(err) == err = ErrNotFound

----------------------------------------------------------------------------
(* Bounds of the model.                                                     *)

MaxVersions == 3      \* longest published-version list of the harness
MaxPairs == 2         \* most key/value pairs in a generated JSON body
MaxAkas == 2          \* longest stored parent_akas list of the harness

----------------------------------------------------------------------------
(* Semantic versions (github.com/Masterminds/semver as used by the mod).    *)

EmptyString == <<>>

\* semver.NewVersion: ok for 1..3 numeric components, missing ones are 0.
VersionParses(s) == Len(s) \in 1..3

NewVersion(s) ==
    [major |-> s[1],
     minor |-> IF Len(s) >= 2 THEN s[2] ELSE 0,
     patch |-> IF Len(s) >= 3 THEN s[3] ELSE 0]

\* Version.Compare: -1, 0, 1 by major, then minor, then patch.
Compare(a, b) ==
    IF a.major # b.major THEN (IF a.major < b.major THEN -1 ELSE 1)
    ELSE IF a.minor # b.minor THEN (IF a.minor < b.minor THEN -1 ELSE 1)
    ELSE IF a.patch # b.patch THEN (IF a.patch < b.patch THEN -1 ELSE 1)
    ELSE 0

ConstraintOps == {"any", "caret", "ge", "eq"}

\* semver.NewConstraint: the expression parses iff its operator is known and
\* its version operand parses.
ConstraintParses(c) ==
    /\ c.op \in ConstraintOps
    /\ (c.op # "any" => VersionParses(c.v))

\* Constraints.Check for the single-comparator constraints of the model.
Check(c, v) ==
    CASE c.op = "any" -> TRUE
      [] c.op = "caret" -> /\ Compare(v, NewVersion(c.v)) >= 0
                           /\ v.major = NewVersion(c.v).major
      [] c.op = "ge" -> Compare(v, NewVersion(c.v)) >= 0
      [] c.op = "eq" -> Compare(v, NewVersion(c.v)) = 0

\* latestLoop passing over an available entry that does not parse.
RECURSIVE latestLoop_skipsUnparseable(_, _, _, _)
latestLoop_skipsUnparseable(c, modVersions, i, latest) ==
    IF i > Len(modVersions) THEN [version |-> latest, err |-> NoErr]
    ELSE LET modVersion == modVersions[i] IN
         IF /\ modVersion.status = "available"
            /\ VersionParses(modVersion.version)
            /\ Check(c, NewVersion(modVersion.version))
         THEN latestLoop_skipsUnparseable(c, modVersions, i + 1, modVersion.version)
         ELSE latestLoop_skipsUnparseable(c, modVersions, i + 1, latest)

\* The for-range loop of getLatestCompatibleVersion from entry i on, with
\* latestCompatibleVersion = latest so far.
RECURSIVE latestLoop(_, _, _, _)
latestLoop(c, modVersions, i, latest) ==
    IF i > Len(modVersions) THEN [version |-> latest, err |-> NoErr]
    ELSE LET modVersion == modVersions[i] IN
         IF modVersion.status = "available"
         THEN IF ~VersionParses(modVersion.version)
              THEN [version |-> EmptyString, err |-> ErrVersion]
              ELSE IF Check(c, NewVersion(modVersion.version))
                   THEN latestLoop(c, modVersions, i + 1, modVersion.version)
                   ELSE latestLoop(c, modVersions, i + 1, latest)
         ELSE latestLoop(c, modVersions, i + 1, latest)

\* getLatestCompatibleVersion(d, meta): version is d.Get("version"), listing
\* is what client.GetModVersions(org, mod) returned: [versions, err].
getLatestCompatibleVersion(version, listing) ==
    IF listing.err # NoErr THEN [version |-> EmptyString, err |-> listing.err]
    ELSE IF ~ConstraintParses(version)
    THEN [version |-> EmptyString, err |-> ErrConstraint]
    ELSE latestLoop(version, listing.versions, 1, EmptyString)

----------------------------------------------------------------------------
(* Inputs of the version-resolution harness.                                *)

VersionStrings == {<<1, 0, 0>>, <<1, 5, 0>>, <<1, 10, 0>>, <<2, 0, 0>>, <<1, 0, 0, 0>>}
Statuses == {"available", "unavailable"}
PublishedVersions == [version : VersionStrings, status : Statuses]

ConstraintStrings ==
    {[op |-> "any", v |-> EmptyString],
     [op |-> "caret", v |-> <<1, 0, 0>>],
     [op |-> "caret", v |-> <<3, 0, 0>>],
     [op |-> "ge", v |-> <<1, 5, 0>>],
     [op |-> "bad", v |-> EmptyString]}

SeqsUpTo(S, n) == UNION {[1..k -> S] : k \in 0..n}

----------------------------------------------------------------------------
(* JSON texts and the body normaliser (encoding/json as used by the         *)
(* resource).  A text is a sequence of tokens: the punctuation "{", "}",    *)
(* ":", ",", the whitespace " " and "\n", string literals and number         *)
(* literals.  A decoded object is a function from its keys to decoded        *)
(* values (a string literal, or a number in float64 form).                   *)

Whitespace == {" ", "\n"}
StringTokens == {"\"a\"", "\"b\""}
NumberTokens == {"1", "1.0", "2"}
LiteralTokens == {"null"}

\* Keys in the order encoding/json writes them (sorted).
SortedKeys == <<"\"a\"", "\"b\"">>

\* json.Unmarshal of a number into interface{} gives a float64, which is
\* marshalled back in shortest form: 1.0 and 1 are the same value.
DecodeValue(t) == IF t = "1.0" THEN "1" ELSE t

IsWhitespace(t) == t \in Whitespace

\* json.Unmarshal([]byte(body), &data) with data a map[string]interface{}:
\* the text must be one object, whitespace between tokens is skipped, a
\* repeated key keeps its last value; the text null decodes without error
\* and leaves the map empty.
Unmarshal(body) ==
    LET toks == SelectSeq(body, LAMBDA t : ~IsWhitespace(t))
        n == Len(toks)
        inner == IF n >= 2 THEN SubSeq(toks, 2, n - 1) ELSE <<>>
        m == Len(inner)
        members == (m + 1) \div 4
        wellFormed ==
            /\ n >= 2
            /\ toks[1] = "{"
            /\ toks[n] = "}"
            /\ (m = 0 \/ m % 4 = 3)
            /\ \A i \in 1..m :
                  CASE i % 4 = 1 -> inner[i] \in StringTokens
                    [] i % 4 = 2 -> inner[i] = ":"
                    [] i % 4 = 3 -> inner[i] \in StringTokens \cup NumberTokens \cup LiteralTokens
                    [] OTHER -> inner[i] = ","
        keys == {inner[4 * j - 3] : j \in 1..members}
        lastOf(k) == CHOOSE j \in 1..members :
                        /\ inner[4 * j - 3] = k
                        /\ \A j2 \in 1..members : inner[4 * j2 - 3] = k => j2 <= j
    IN IF toks = <<"null">> THEN [err |-> NoErr, data |-> <<>>]
       ELSE IF wellFormed
       THEN [err |-> NoErr,
             data |-> [k \in keys |-> DecodeValue(inner[4 * lastOf(k) - 1])]]
       ELSE [err |-> ErrJson, data |-> <<>>]

\* The members of json.MarshalIndent(d, "", " ") from the i-th sorted key on;
\* first tells whether a member was written already.
RECURSIVE marshalMembers(_, _, _)
marshalMembers(data, i, first) ==
    IF i > Len(SortedKeys) THEN <<>>
    ELSE LET k == SortedKeys[i] IN
         IF k \in DOMAIN data
         THEN (IF first THEN <<>> ELSE <<",">>)
              \o <<"\n", " ", k, ":", " ", data[k]>>
              \o marshalMembers(data, i + 1, FALSE)
         ELSE marshalMembers(data, i + 1, first)

\* bodyFromProperties: json.MarshalIndent(d, "", " ") as a string.  Values
\* decoded from JSON always marshal, so its error return is never taken.
bodyFromProperties(data) ==
    IF DOMAIN data = {} THEN <<"{", "}">>
    ELSE <<"{">> \o marshalMembers(data, 1, TRUE) \o <<"\n", "}">>

\* propertiesFromBody returning the decoded object itself.
propertiesFromBody_keepsValues(body) ==
    LET u == Unmarshal(body) IN
    IF u.err # NoErr THEN [err |-> u.err, properties |-> <<>>]
    ELSE [err |-> NoErr, properties |-> u.data]

\* propertiesFromBody: the top-level keys of the body, each mapped to itself.
propertiesFromBody(body) ==
    LET u == Unmarshal(body) IN
    IF u.err # NoErr THEN [err |-> u.err, properties |-> <<>>]
    ELSE [err |-> NoErr, properties |-> [k \in DOMAIN u.data |-> k]]

\* formatBody comparing texts as they are.
formatBody_asWritten(body) == body

\* formatBody: the body re-marshalled, or the original text when it does not
\* unmarshal.
formatBody(body) ==
    LET u == Unmarshal(body) IN
    IF u.err # NoErr THEN body
    ELSE bodyFromProperties(u.data)

\* suppressIfBodyMatches(k, old, new, d)
suppressIfBodyMatches(old, new) ==
    IF old = EmptyString \/ new = EmptyString THEN FALSE
    ELSE formatBody(old) = formatBody(new)

\* suppressIfClientSecret(k, old, new, d)
suppressIfClientSecret(old, new) == old # EmptyString

----------------------------------------------------------------------------
(* Inputs of the body harness: objects written compactly or indented, and   *)
(* every prefix of a compact text (the truncated texts do not parse).       *)

GenPairs == {<<"\"a\"", "1">>, <<"\"a\"", "2">>, <<"\"b\"", "1">>, <<"\"b\"", "1.0">>}

RECURSIVE renderCompact(_, _)
renderCompact(pairs, i) ==
    IF i > Len(pairs) THEN <<>>
    ELSE (IF i = 1 THEN <<>> ELSE <<",">>)
         \o <<pairs[i][1], ":", pairs[i][2]>> \o renderCompact(pairs, i + 1)

RECURSIVE renderIndented(_, _)
renderIndented(pairs, i) ==
    IF i > Len(pairs) THEN <<>>
    ELSE (IF i = 1 THEN <<>> ELSE <<",">>)
         \o <<"\n", " ", pairs[i][1], ":", " ", pairs[i][2]>>
         \o renderIndented(pairs, i + 1)

CompactText(pairs) == <<"{">> \o renderCompact(pairs, 1) \o <<"}">>
IndentedText(pairs) ==
    IF pairs = <<>> THEN <<"{", "}">>
    ELSE <<"{">> \o renderIndented(pairs, 1) \o <<"\n", "}">>

PairLists == SeqsUpTo(GenPairs, MaxPairs)

Prefixes(t) == {SubSeq(t, 1, n) : n \in 0..Len(t)}

BodyTexts ==
    UNION {Prefixes(CompactText(p)) : p \in PairLists}
    \cup {IndentedText(p) : p \in PairLists}
    \cup {<<"null">>}

----------------------------------------------------------------------------
(* The remote system, as the handlers see it through apiclient.Client.      *)
(* One managed entity and its parent folder.  The parent has id ParentId    *)
(* and the alias list remote.parentAkas (nil when the API returns none).    *)

ParentId == "p1"
NoId == ""
IdSeq == <<"e1", "e2", "e3", "e4">>
MaxCreates == 1       \* entities the remote system creates in one behaviour

Range(s) == {s[i] : i \in 1..Len(s)}

NilAkas == [nil |-> TRUE, list |-> <<>>]
ParentAkasChoices ==
    {NilAkas,
     [nil |-> FALSE, list |-> <<"aka1">>],
     [nil |-> FALSE, list |-> <<"aka1", "aka2">>]}

\* Whether a declared parent reference names the parent: its id or an aka.
Resolves(rm, ref) ==
    ref = ParentId \/ (~rm.parentAkas.nil /\ ref \in Range(rm.parentAkas.list))

\* Failures the client may report on any call, on a read of the parent (which
\* may be gone) and on a poll of the mod (which may be removed meanwhile).
CallFailures == {NoErr, ErrTransport}
ParentFailures == {NoErr, ErrTransport, ErrNotFound}
PollFailures == {NoErr, ErrTransport, ErrNotFound}

\* client.ReadResource(parentId, nil): the parent's metadata; the API looks a
\* resource up by id or by aka.
ReadParent(rm, parentId, f) ==
    IF f # NoErr THEN [err |-> f, id |-> parentId, akas |-> NilAkas]
    ELSE IF ~Resolves(rm, parentId)
    THEN [err |-> ErrNotFound, id |-> parentId, akas |-> NilAkas]
    ELSE [err |-> NoErr, id |-> parentId, akas |-> rm.parentAkas]

\* client.GetResourceAkas(parentId): the parent's alias list, the id itself
\* when it has none.
GetResourceAkas(rm, parentId, f) ==
    LET p == ReadParent(rm, parentId, f) IN
    [err |-> p.err,
     id |-> parentId,
     akas |-> IF p.err # NoErr THEN <<>>
              ELSE IF p.akas.nil \/ p.akas.list = <<>> THEN <<parentId>>
              ELSE p.akas.list]

\* client.CreateResource / CreateFolder / InstallMod: a new entity under the
\* resolved parent; its metadata {Id, ParentId}.
RemoteCreate(rm, parentRef, bodyOk, f) ==
    [err |-> IF f # NoErr THEN f
             ELSE IF ~Resolves(rm, parentRef) THEN ErrNotFound
             ELSE IF ~bodyOk THEN ErrTransport
             ELSE NoErr,
     id |-> IdSeq[rm.created + 1],
     parentId |-> ParentId]

\* client.UpdateResource / UpdateFolder: the entity id must exist.
RemoteUpdate(rm, id, parentRef, bodyOk, f) ==
    [err |-> IF f # NoErr THEN f
             ELSE IF ~rm.exists \/ rm.id # id THEN ErrNotFound
             ELSE IF ~Resolves(rm, parentRef) THEN ErrNotFound
             ELSE IF ~bodyOk THEN ErrTransport
             ELSE NoErr,
     id |-> id,
     parentId |-> ParentId]

\* client.ReadResource(id, properties) / ReadFolder / ReadMod / ReadControl:
\* the entity, with the requested properties (null for one it does not have).
RemoteRead(rm, id, properties, f) ==
    [err |-> IF f # NoErr THEN f
             ELSE IF ~rm.exists \/ rm.id # id THEN ErrNotFound
             ELSE NoErr,
     id |-> rm.id,
     parentId |-> ParentId,
     data |-> [k \in DOMAIN properties |->
                  IF k \in DOMAIN rm.data THEN rm.data[k] ELSE "null"]]

\* client.DeleteResource / UninstallMod.
RemoteDelete(rm, id, f) ==
    IF f # NoErr THEN f
    ELSE IF ~rm.exists \/ rm.id # id THEN ErrNotFound
    ELSE NoErr

\* The remote state after a successful create, update or delete.
AfterCreate(rm, created, data) ==
    IF created.err # NoErr THEN rm
    ELSE [rm EXCEPT !.exists = TRUE, !.id = created.id, !.data = data,
                    !.created = @ + 1]

AfterUpdate(rm, updated, data) ==
    IF updated.err # NoErr THEN rm ELSE [rm EXCEPT !.data = data]

AfterDelete(rm, err) ==
    IF err # NoErr THEN rm ELSE [rm EXCEPT !.exists = FALSE, !.data = <<>>]

----------------------------------------------------------------------------
(* What a handler returned: the record kept in "last".                      *)

NoParent == [read |-> FALSE, err |-> NoErr, id |-> NoId, akas |-> NilAkas]
Resolved(p) == [read |-> TRUE, err |-> p.err, id |-> p.id, akas |-> p.akas]

NotReached == "n/a"

\* op: the handler; err: the error it returned; preId: d.Id() when it was
\* called; call: the error of its remote call on the entity; par: the parent
\* read it made; wait: how waitForInstallation ended; n: states returned by
\* an import; sel: the selector of a control read; b: the answer of Exists;
\* clean: every remote call the handler made was answered without a
\* failure of the transport (kept for imports); cfg: the arguments declared
\* for a control read; target: the version getLatestCompatibleVersion
\* resolved for a mod.
NoCfg == [cid |-> NoId, uri |-> "", resource |-> ""]

NoSel == [by |-> "none", id |-> NoId, uri |-> "", resourceId |-> ""]

Ret(op, err, preId, call, par, wait, n) ==
    [op |-> op, err |-> err, preId |-> preId, call |-> call, par |-> par,
     wait |-> wait, n |-> n, sel |-> NoSel, b |-> FALSE, clean |-> FALSE,
     cfg |-> NoCfg, target |-> EmptyString]

----------------------------------------------------------------------------
(* Parent alias resolution.                                                 *)

\* setParentAkas(parentId, d, meta); parent is what
\* client.ReadResource(parentId, nil) returned.
setParentAkas(parentId, dd, parent) ==
    IF parent.err # NoErr THEN [err |-> parent.err, d |-> dd]
    ELSE LET parentAkas == IF parent.akas.nil THEN <<parentId>>
                           ELSE parent.akas.list
         IN \* d.Set("parent_akas", parent.Turbot.Akas): the list as read, a
            \* nil list is stored as the empty list; parentAkas is not used.
            [err |-> NoErr, d |-> [dd EXCEPT !.parent_akas = parent.akas.list]]

\* supressIfParentAkaMatches(k, old, new, d).  d.GetOk reports a list as set
\* when it is not empty.
RECURSIVE akaLoop(_, _, _)
akaLoop(parentAkas, i, new) ==
    IF i > Len(parentAkas) THEN FALSE
    ELSE IF parentAkas[i] = new THEN TRUE
    ELSE akaLoop(parentAkas, i + 1, new)

\* supressIfParentAkaMatches looking for the old value.
supressIfParentAkaMatches_usesOld(old, new, dd) ==
    LET parentAkasSet == dd.parent_akas # <<>> IN
    IF ~parentAkasSet THEN FALSE
    ELSE akaLoop(dd.parent_akas, 1, old)

supressIfParentAkaMatches(old, new, dd) ==
    LET parentAkasSet == dd.parent_akas # <<>> IN
    IF ~parentAkasSet THEN FALSE
    ELSE akaLoop(dd.parent_akas, 1, new)

----------------------------------------------------------------------------
(* Resource handlers.                                                       *)

\* resourceTurbotResourceExists: client.ResourceExists(id).
resourceTurbotResourceExists(rm, id, f) ==
    IF f # NoErr THEN [b |-> FALSE, err |-> f]
    ELSE [b |-> rm.exists /\ rm.id = id, err |-> NoErr]

\* resourceTurbotResourceCreate; created is what client.CreateResource
\* returned, parent what the parent read returned.
resourceTurbotResourceCreate(dd, created, parent) ==
    IF created.err # NoErr THEN [err |-> created.err, d |-> dd, par |-> NoParent]
    ELSE LET s == setParentAkas(created.parentId, dd, parent) IN
         IF s.err # NoErr THEN [err |-> s.err, d |-> s.d, par |-> Resolved(parent)]
         ELSE [err |-> NoErr,
               d |-> [s.d EXCEPT !.id = created.id, !.body = formatBody(dd.body)],
               par |-> Resolved(parent)]

\* resourceTurbotResourceUpdate
resourceTurbotResourceUpdate(dd, updated, parent) ==
    IF updated.err # NoErr THEN [err |-> updated.err, d |-> dd, par |-> NoParent]
    ELSE LET s == setParentAkas(updated.parentId, dd, parent) IN
         [err |-> s.err, d |-> s.d, par |-> Resolved(parent)]

\* resourceTurbotResourceRead clearing the id on every error of the read.
resourceTurbotResourceRead_clearsOnAnyError(dd, props, resource, parent) ==
    IF props.err # NoErr
    THEN [err |-> props.err, d |-> dd, par |-> NoParent, call |-> NotReached]
    ELSE IF resource.err # NoErr
    THEN [err |-> resource.err, d |-> [dd EXCEPT !.id = NoId],
          par |-> NoParent, call |-> resource.err]
    ELSE LET body == bodyFromProperties(resource.data)
             s == setParentAkas(resource.parentId, dd, parent)
         IN IF s.err # NoErr
            THEN [err |-> s.err, d |-> s.d, par |-> Resolved(parent), call |-> NoErr]
            ELSE [err |-> NoErr,
                  d |-> [s.d EXCEPT !.parent = resource.parentId, !.body = body],
                  par |-> Resolved(parent), call |-> NoErr]

\* resourceTurbotResourceRead; props is propertiesFromBody(d.Get("body")),
\* resource what client.ReadResource(id, properties) returned.
resourceTurbotResourceRead(dd, props, resource, parent) ==
    IF props.err # NoErr
    THEN [err |-> props.err, d |-> dd, par |-> NoParent, call |-> NotReached]
    ELSE IF resource.err # NoErr
    THEN [err |-> resource.err,
          d |-> IF NotFoundError(resource.err) THEN [dd EXCEPT !.id = NoId] ELSE dd,
          par |-> NoParent, call |-> resource.err]
    ELSE LET body == bodyFromProperties(resource.data)
             s == setParentAkas(resource.parentId, dd, parent)
         IN IF s.err # NoErr
            THEN [err |-> s.err, d |-> s.d, par |-> Resolved(parent), call |-> NoErr]
            ELSE [err |-> NoErr,
                  d |-> [s.d EXCEPT !.parent = resource.parentId, !.body = body],
                  par |-> Resolved(parent), call |-> NoErr]

\* resourceTurbotResourceDelete taking a missing entity for a deleted one.
resourceTurbotResourceDelete_ignoresNotFound(dd, err) ==
    IF err # NoErr /\ ~NotFoundError(err) THEN [err |-> err, d |-> dd]
    ELSE [err |-> NoErr, d |-> [dd EXCEPT !.id = NoId]]

\* resourceTurbotResourceDelete; err is what client.DeleteResource returned.
resourceTurbotResourceDelete(dd, err) ==
    IF err # NoErr THEN [err |-> err, d |-> dd]
    ELSE [err |-> NoErr, d |-> [dd EXCEPT !.id = NoId]]

\* resourceTurbotResourceImport; read is what resourceTurbotResourceRead did.
resourceTurbotResourceImport(read) ==
    IF read.err # NoErr THEN [err |-> read.err, d |-> read.d, n |-> 0]
    ELSE [err |-> NoErr, d |-> read.d, n |-> 1]

----------------------------------------------------------------------------
(* Folder handlers.                                                         *)

\* resourceTurbotFolderExists: client.ResourceExists(id).
resourceTurbotFolderExists(rm, id, f) == resourceTurbotResourceExists(rm, id, f)

\* resourceTurbotFolderCreate; created is what client.CreateFolder returned,
\* akas what client.GetResourceAkas(turbotMetadata.ParentId) returned.
resourceTurbotFolderCreate(dd, created, akas) ==
    IF created.err # NoErr THEN [err |-> created.err, d |-> dd, par |-> NoParent]
    ELSE IF akas.err # NoErr
    THEN [err |-> akas.err, d |-> dd,
          par |-> [read |-> TRUE, err |-> akas.err, id |-> akas.id, akas |-> NilAkas]]
    ELSE [err |-> NoErr,
          d |-> [dd EXCEPT !.parent_akas = akas.akas, !.id = created.id],
          par |-> [read |-> TRUE, err |-> NoErr, id |-> akas.id,
                   akas |-> [nil |-> FALSE, list |-> akas.akas]]]

\* resourceTurbotFolderUpdate
resourceTurbotFolderUpdate(dd, updated, akas) ==
    IF updated.err # NoErr THEN [err |-> updated.err, d |-> dd, par |-> NoParent]
    ELSE IF akas.err # NoErr
    THEN [err |-> akas.err, d |-> dd,
          par |-> [read |-> TRUE, err |-> akas.err, id |-> akas.id, akas |-> NilAkas]]
    ELSE [err |-> NoErr,
          d |-> [dd EXCEPT !.parent_akas = akas.akas],
          par |-> [read |-> TRUE, err |-> NoErr, id |-> akas.id,
                   akas |-> [nil |-> FALSE, list |-> akas.akas]]]

\* resourceTurbotFolderRead; folder is what client.ReadFolder(id) returned.
resourceTurbotFolderRead(dd, folder, akas) ==
    IF folder.err # NoErr
    THEN [err |-> folder.err,
          d |-> IF NotFoundError(folder.err) THEN [dd EXCEPT !.id = NoId] ELSE dd,
          par |-> NoParent, call |-> folder.err]
    ELSE IF akas.err # NoErr
    THEN [err |-> akas.err, d |-> dd, call |-> NoErr,
          par |-> [read |-> TRUE, err |-> akas.err, id |-> akas.id, akas |-> NilAkas]]
    ELSE [err |-> NoErr, call |-> NoErr,
          d |-> [dd EXCEPT !.parent_akas = akas.akas, !.parent = folder.parentId],
          par |-> [read |-> TRUE, err |-> NoErr, id |-> akas.id,
                   akas |-> [nil |-> FALSE, list |-> akas.akas]]]

\* resourceTurbotFolderDelete; err is what client.DeleteResource returned.
resourceTurbotFolderDelete(dd, err) ==
    IF err # NoErr THEN [err |-> err, d |-> dd]
    ELSE [err |-> NoErr, d |-> [dd EXCEPT !.id = NoId]]

\* resourceTurbotFolderImport
resourceTurbotFolderImport(read) ==
    IF read.err # NoErr THEN [err |-> read.err, d |-> read.d, n |-> 0]
    ELSE [err |-> NoErr, d |-> read.d, n |-> 1]

----------------------------------------------------------------------------
(* Mod handlers.                                                            *)

maxRetries == 40
sleep == 20

\* resourceTurbotModExists; err is what client.ReadMod(id) returned.
resourceTurbotModExists(err) ==
    IF err # NoErr
    THEN (IF NotFoundError(err) THEN [b |-> FALSE, err |-> NoErr]
          ELSE [b |-> FALSE, err |-> err])
    ELSE [b |-> TRUE, err |-> NoErr]

\* modInstallBegin calling client.InstallMod before it looks at the error of
\* the version resolution.
modInstallBegin_installsFirst(dd, target, mod) ==
    IF mod.err # NoErr
    THEN [wait |-> FALSE, err |-> mod.err, call |-> mod.err,
          modId |-> NoId, targetVersion |-> EmptyString]
    ELSE IF target.err # NoErr
    THEN [wait |-> FALSE, err |-> target.err, call |-> NoErr,
          modId |-> NoId, targetVersion |-> EmptyString]
    ELSE [wait |-> TRUE, err |-> NoErr, call |-> NoErr,
          modId |-> mod.id, targetVersion |-> target.version]

\* modInstall up to the call of waitForInstallation: target is what
\* getLatestCompatibleVersion returned, mod what client.InstallMod returned
\* (not called when the resolution failed).  wait tells whether the poll
\* loop is entered.
modInstallBegin(dd, target, mod) ==
    IF target.err # NoErr
    THEN [wait |-> FALSE, err |-> target.err, call |-> NotReached,
          modId |-> NoId, targetVersion |-> EmptyString]
    ELSE IF mod.err # NoErr
    THEN [wait |-> FALSE, err |-> mod.err, call |-> mod.err,
          modId |-> NoId, targetVersion |-> EmptyString]
    ELSE [wait |-> TRUE, err |-> NoErr, call |-> NoErr,
          modId |-> mod.id, targetVersion |-> target.version]

\* getInstalledModVersion; resource is what client.ReadResource(modId,
\* {"version": "turbot.custom.installedVersion"}) returned.
getInstalledModVersion(resource) ==
    IF resource.err # NoErr THEN [version |-> EmptyString, err |-> resource.err]
    ELSE IF resource.version.nil THEN [version |-> EmptyString, err |-> NoErr]
    ELSE [version |-> resource.version.v, err |-> NoErr]

\* waitIteration with the version comparison left out.
waitIteration_neverMatches(targetVersion, installed) ==
    IF installed.err # NoErr THEN [next |-> "return", err |-> installed.err]
    ELSE [next |-> "sleep", err |-> NoErr]

\* waitIteration sleeping and retrying after a failed poll.
waitIteration_retriesOnError(targetVersion, installed) ==
    IF installed.err = NoErr /\ installed.version = targetVersion
    THEN [next |-> "return", err |-> NoErr]
    ELSE [next |-> "sleep", err |-> NoErr]

\* waitIteration taking an unset installed version for "not installed yet".
waitIteration_needsVersion(targetVersion, installed) ==
    IF installed.err # NoErr THEN [next |-> "return", err |-> installed.err]
    ELSE IF installed.version = targetVersion /\ installed.version # EmptyString
    THEN [next |-> "return", err |-> NoErr]
    ELSE [next |-> "sleep", err |-> NoErr]

\* One pass through the body of the for loop of waitForInstallation, up to
\* the sleep: "return" with an error or nil, or "sleep".
waitIteration(targetVersion, installed) ==
    IF installed.err # NoErr THEN [next |-> "return", err |-> installed.err]
    ELSE IF installed.version = targetVersion
    THEN [next |-> "return", err |-> NoErr]
    ELSE [next |-> "sleep", err |-> NoErr]

\* modInstall after waitForInstallation returned waitErr: the call statement
\* drops the returned error.  The mod file calls setParentAkas(d, meta); the
\* parent it resolves is the declared one, d.Get("parent").
modInstallEnd(dd, modId, targetVersion, waitErr, parent) ==
    LET s == setParentAkas(dd.parent, dd, parent) IN
    IF s.err # NoErr THEN [err |-> s.err, d |-> s.d]
    ELSE [err |-> NoErr,
          d |-> [s.d EXCEPT !.id = modId,
                            !.latest_compatible_version = targetVersion]]

\* resourceTurbotModRead; mod is what client.ReadMod(id) returned, target
\* what getLatestCompatibleVersion returned.
resourceTurbotModRead(dd, mod, target, parent) ==
    IF mod.err # NoErr
    THEN [err |-> mod.err,
          d |-> IF NotFoundError(mod.err) THEN [dd EXCEPT !.id = NoId] ELSE dd,
          par |-> NoParent, call |-> mod.err]
    ELSE IF target.err # NoErr
    THEN [err |-> target.err, d |-> dd, par |-> NoParent, call |-> NoErr]
    ELSE LET s == setParentAkas(dd.parent, dd, parent) IN
         IF s.err # NoErr
         THEN [err |-> s.err, d |-> s.d, par |-> Resolved(parent), call |-> NoErr]
         ELSE [err |-> NoErr, call |-> NoErr, par |-> Resolved(parent),
               d |-> [s.d EXCEPT !.parent = mod.parent,
                                 !.version = mod.version,
                                 !.latest_compatible_version = target.version]]

\* resourceTurbotModUninstall; err is what client.UninstallMod(id) returned.
resourceTurbotModUninstall(dd, err) ==
    IF err # NoErr THEN [err |-> err, d |-> dd]
    ELSE [err |-> NoErr, d |-> [dd EXCEPT !.id = NoId]]

\* resourceTurbotModImport
resourceTurbotModImport(read) ==
    IF read.err # NoErr THEN [err |-> read.err, d |-> read.d, n |-> 0]
    ELSE [err |-> NoErr, d |-> read.d, n |-> 1]

\* supressIfLatestCompatibleVersionInstalled
supressIfLatestCompatibleVersionInstalled(old, new, dd) == FALSE

----------------------------------------------------------------------------
(* Control data source.                                                     *)

ControlUri == "tmod:ctl"
ControlResource == "r9"

\* The selector dataSourceTurbotControlRead builds.
controlArgs(dd) ==
    LET controlId == dd.cid
        controlUri == dd.uri
        resourceId == dd.uri
    IN IF controlUri # "" /\ resourceId # ""
       THEN [by |-> "pair", id |-> NoId, uri |-> controlUri, resourceId |-> resourceId]
       ELSE [by |-> "id", id |-> controlId, uri |-> "", resourceId |-> ""]

\* client.ReadControl(args)
RemoteReadControl(rm, args, f) ==
    [err |-> IF f # NoErr THEN f
             ELSE IF ~rm.exists THEN ErrNotFound
             ELSE IF args.by = "id" /\ args.id = rm.id THEN NoErr
             ELSE IF /\ args.by = "pair"
                     /\ args.uri = ControlUri
                     /\ args.resourceId = ControlResource THEN NoErr
             ELSE ErrNotFound,
     id |-> rm.id, uri |-> ControlUri, resourceId |-> ControlResource]

\* dataSourceTurbotControlRead; control is what client.ReadControl returned.
dataSourceTurbotControlRead(dd, control) ==
    IF control.err # NoErr
    THEN [err |-> control.err,
          d |-> IF NotFoundError(control.err) THEN [dd EXCEPT !.id = NoId] ELSE dd]
    ELSE [err |-> NoErr,
          d |-> [dd EXCEPT !.id = control.id, !.uri = control.uri,
                           !.resource = control.resourceId]]

----------------------------------------------------------------------------
(* State of the lifecycle model.                                            *)

Kinds == {"resource", "folder", "mod", "control"}

AnyVersion == [op |-> "any", v |-> EmptyString]

\* A ResourceData with nothing set; the schema default of "version" is "*".
BlankData ==
    [id |-> NoId, parent |-> "", parent_akas |-> <<>>, body |-> EmptyString,
     version |-> AnyVersion, latest_compatible_version |-> EmptyString,
     cid |-> "", uri |-> "", resource |-> ""]

\* Values a configuration declares.
DeclaredParents == {"aka1", ParentId}
DeclaredBodies ==
    {CompactText(<<<<"\"b\"", "1.0">>, <<"\"a\"", "1">>>>),
     IndentedText(<<<<"\"a\"", "2">>>>),
     <<"{", "\"a\"">>}
DeclaredVersions ==
    {AnyVersion, [op |-> "caret", v |-> <<1, 0, 0>>],
     [op |-> "caret", v |-> <<3, 0, 0>>],
     [op |-> "bad", v |-> EmptyString]}
DeclaredControls ==
    {[cid |-> "e1", uri |-> "", resource |-> ""],
     [cid |-> "e1", uri |-> ControlUri, resource |-> ControlResource],
     [cid |-> "", uri |-> ControlUri, resource |-> ""]}

\* Published-version lists the catalog answers with.
Catalogs ==
    {<<>>,
     <<[version |-> <<1, 0, 0>>, status |-> "available"],
       [version |-> <<1, 5, 0>>, status |-> "available"],
       [version |-> <<2, 0, 0>>, status |-> "unavailable"]>>,
     <<[version |-> <<2, 0, 0>>, status |-> "available"],
       [version |-> <<1, 0, 0, 0>>, status |-> "available"]>>}

\* Answers of a poll of turbot.custom.installedVersion.
NilVersion == [nil |-> TRUE, v |-> EmptyString]
InstalledChoices ==
    {NilVersion, [nil |-> FALSE, v |-> <<1, 0, 0>>], [nil |-> FALSE, v |-> <<1, 5, 0>>]}

InitialData == [k \in {"\"a\""} |-> "1"]

NoWait ==
    [op |-> "none", preId |-> NoId, modId |-> NoId, targetVersion |-> EmptyString,
     retryCount |-> 0, polls |-> 0, sleeps |-> 0, elapsed |-> 0,
     err |-> NotReached, pollErr |-> NoErr, seen |-> EmptyString]

NoDiff == [old |-> "", new |-> "", akas |-> <<>>, done |-> FALSE, result |-> FALSE]
NoVer ==
    [constraint |-> AnyVersion, listing |-> [err |-> NoErr, versions |-> <<>>],
     done |-> FALSE, result |-> [version |-> EmptyString, err |-> NoErr]]
NoRound == [err |-> NoErr, body |-> EmptyString]
NoTxt ==
    [old |-> EmptyString, new |-> EmptyString, done |-> FALSE, result |-> FALSE,
     round |-> NoRound]

NoLast == Ret("none", NoErr, NoId, NotReached, NoParent, NotReached, 0)

InitRemote(k) ==
    {[exists |-> e,
      id |-> IF e THEN IdSeq[1] ELSE NoId,
      created |-> IF e THEN 1 ELSE 0,
      data |-> IF e /\ k = "resource" THEN InitialData ELSE <<>>,
      parentAkas |-> a,
      catalog |-> c,
      version |-> AnyVersion]
     : e \in BOOLEAN,
       a \in IF k = "control" THEN {NilAkas} ELSE ParentAkasChoices,
       c \in IF k = "mod" THEN Catalogs ELSE {<<>>}}

Init ==
    /\ kind \in Kinds
    /\ d = BlankData
    /\ remote \in InitRemote(kind)
    /\ pc = "idle"
    /\ w = NoWait
    /\ last = NoLast
    /\ diff = NoDiff
    /\ ver = NoVer
    /\ txt = NoTxt

Idle == pc = "idle"

\* The host keeps the local state a handler leaves; an entity whose id is
\* empty is dropped from the state, with all its fields.
Persist(dd) == IF dd.id = NoId THEN BlankData ELSE dd

\* A handler that ran to its return in one step.
Returned(dd, rm, ret) ==
    /\ d' = Persist(dd)
    /\ remote' = rm
    /\ last' = ret
    /\ UNCHANGED <<kind, pc, w, diff, ver, txt>>

----------------------------------------------------------------------------
(* Resource actions.                                                        *)

ResourceExists ==
    /\ kind = "resource" /\ Idle /\ d.id # NoId
    /\ \E f \in CallFailures :
          LET r == resourceTurbotResourceExists(remote, d.id, f) IN
          Returned(d, remote,
                   [Ret("Exists", r.err, d.id, r.err, NoParent, NotReached, 0)
                      EXCEPT !.b = r.b])

ResourceCreate ==
    /\ kind = "resource" /\ Idle /\ d.id = NoId
    /\ remote.created < MaxCreates
    /\ \E parent \in DeclaredParents, body \in DeclaredBodies,
          f \in CallFailures, pf \in ParentFailures :
          LET dd == [d EXCEPT !.parent = parent, !.body = body]
              u == Unmarshal(body)
              created == RemoteCreate(remote, parent, u.err = NoErr, f)
              rm == AfterCreate(remote, created, u.data)
              r == resourceTurbotResourceCreate(
                       dd, created, ReadParent(rm, created.parentId, pf))
          IN Returned(r.d, rm,
                      Ret("Create", r.err, d.id, created.err, r.par, NotReached, 0))

ResourceRead ==
    /\ kind = "resource" /\ Idle /\ d.id # NoId
    /\ \E f \in CallFailures, pf \in ParentFailures :
          LET props == propertiesFromBody(d.body)
              resource == RemoteRead(remote, d.id, props.properties, f)
              r == resourceTurbotResourceRead(
                       d, props, resource, ReadParent(remote, resource.parentId, pf))
          IN Returned(r.d, remote,
                      Ret("Read", r.err, d.id, r.call, r.par, NotReached, 0))

ResourceUpdate ==
    /\ kind = "resource" /\ Idle /\ d.id # NoId
    /\ \E parent \in DeclaredParents, body \in DeclaredBodies,
          f \in CallFailures, pf \in ParentFailures :
          LET dd == [d EXCEPT !.parent = parent, !.body = body]
              u == Unmarshal(body)
              updated == RemoteUpdate(remote, d.id, parent, u.err = NoErr, f)
              rm == AfterUpdate(remote, updated, u.data)
              r == resourceTurbotResourceUpdate(
                       dd, updated, ReadParent(rm, updated.parentId, pf))
          IN Returned(r.d, rm,
                      Ret("Update", r.err, d.id, updated.err, r.par, NotReached, 0))

ResourceDelete ==
    /\ kind = "resource" /\ Idle /\ d.id # NoId
    /\ \E f \in CallFailures :
          LET err == RemoteDelete(remote, d.id, f)
              r == resourceTurbotResourceDelete(d, err)
          IN Returned(r.d, AfterDelete(remote, err),
                      Ret("Delete", r.err, d.id, err, NoParent, NotReached, 0))

\* Import: the host hands the handler a state that holds the given id only,
\* and keeps the returned states; a failed import leaves the local state alone.
ImportIds == {IdSeq[1], IdSeq[2]}

ResourceImport ==
    /\ kind = "resource" /\ Idle /\ d.id = NoId
    /\ \E id \in ImportIds, f \in CallFailures, pf \in ParentFailures :
          LET dd == [BlankData EXCEPT !.id = id]
              props == propertiesFromBody(dd.body)
              resource == RemoteRead(remote, dd.id, props.properties, f)
              r == resourceTurbotResourceImport(
                       resourceTurbotResourceRead(
                           dd, props, resource,
                           ReadParent(remote, resource.parentId, pf)))
          IN Returned(IF r.n = 1 THEN r.d ELSE d, remote,
                      [Ret("Import", r.err, id, NotReached, NoParent, NotReached, r.n)
                         EXCEPT !.clean = (f = NoErr /\ pf = NoErr)])

----------------------------------------------------------------------------
(* Folder actions.                                                          *)

FolderExists ==
    /\ kind = "folder" /\ Idle /\ d.id # NoId
    /\ \E f \in CallFailures :
          LET r == resourceTurbotFolderExists(remote, d.id, f) IN
          Returned(d, remote,
                   [Ret("Exists", r.err, d.id, r.err, NoParent, NotReached, 0)
                      EXCEPT !.b = r.b])

FolderCreate ==
    /\ kind = "folder" /\ Idle /\ d.id = NoId
    /\ remote.created < MaxCreates
    /\ \E parent \in DeclaredParents, f \in CallFailures, pf \in ParentFailures :
          LET dd == [d EXCEPT !.parent = parent]
              created == RemoteCreate(remote, parent, TRUE, f)
              rm == AfterCreate(remote, created, <<>>)
              r == resourceTurbotFolderCreate(
                       dd, created, GetResourceAkas(rm, created.parentId, pf))
          IN Returned(r.d, rm,
                      Ret("Create", r.err, d.id, created.err, r.par, NotReached, 0))

FolderRead ==
    /\ kind = "folder" /\ Idle /\ d.id # NoId
    /\ \E f \in CallFailures, pf \in ParentFailures :
          LET folder == RemoteRead(remote, d.id, <<>>, f)
              r == resourceTurbotFolderRead(
                       d, folder, GetResourceAkas(remote, folder.parentId, pf))
          IN Returned(r.d, remote,
                      Ret("Read", r.err, d.id, r.call, r.par, NotReached, 0))

FolderUpdate ==
    /\ kind = "folder" /\ Idle /\ d.id # NoId
    /\ \E parent \in DeclaredParents, f \in CallFailures, pf \in ParentFailures :
          LET dd == [d EXCEPT !.parent = parent]
              updated == RemoteUpdate(remote, d.id, parent, TRUE, f)
              r == resourceTurbotFolderUpdate(
                       dd, updated, GetResourceAkas(remote, updated.parentId, pf))
          IN Returned(r.d, remote,
                      Ret("Update", r.err, d.id, updated.err, r.par, NotReached, 0))

FolderDelete ==
    /\ kind = "folder" /\ Idle /\ d.id # NoId
    /\ \E f \in CallFailures :
          LET err == RemoteDelete(remote, d.id, f)
              r == resourceTurbotFolderDelete(d, err)
          IN Returned(r.d, AfterDelete(remote, err),
                      Ret("Delete", r.err, d.id, err, NoParent, NotReached, 0))

FolderImport ==
    /\ kind = "folder" /\ Idle /\ d.id = NoId
    /\ \E id \in ImportIds, f \in CallFailures, pf \in ParentFailures :
          LET dd == [BlankData EXCEPT !.id = id]
              folder == RemoteRead(remote, dd.id, <<>>, f)
              r == resourceTurbotFolderImport(
                       resourceTurbotFolderRead(
                           dd, folder, GetResourceAkas(remote, folder.parentId, pf)))
          IN Returned(IF r.n = 1 THEN r.d ELSE d, remote,
                      [Ret("Import", r.err, id, NotReached, NoParent, NotReached, r.n)
                         EXCEPT !.clean = (f = NoErr /\ pf = NoErr)])

----------------------------------------------------------------------------
(* Mod actions.  modInstall spans the poll loop: it begins in one step,     *)
(* polls and sleeps in steps of their own while the remote installation     *)
(* goes on, and ends in one step; no other handler runs meanwhile.          *)

\* client.InstallMod: the mod's metadata; installing a mod that is there
\* already answers with the same resource.
RemoteInstall(rm, parentRef, f) ==
    [err |-> IF f # NoErr THEN f
             ELSE IF ~Resolves(rm, parentRef) THEN ErrNotFound
             ELSE NoErr,
     id |-> IF rm.exists THEN rm.id ELSE IdSeq[rm.created + 1],
     parentId |-> ParentId]

AfterInstall(rm, mod, version) ==
    IF mod.err # NoErr THEN rm
    ELSE IF rm.exists THEN [rm EXCEPT !.version = version]
    ELSE [rm EXCEPT !.exists = TRUE, !.id = mod.id, !.created = @ + 1,
                    !.version = version]

\* client.ReadMod(id)
RemoteReadMod(rm, id, f) ==
    LET m == RemoteRead(rm, id, <<>>, f) IN
    [err |-> m.err, parent |-> m.parentId, version |-> rm.version]

\* client.GetModVersions(org, mod)
GetModVersions(rm, f) ==
    [err |-> f, versions |-> IF f = NoErr THEN rm.catalog ELSE <<>>]

\* client.ReadResource(modId, {"version": "turbot.custom.installedVersion"})
RemoteReadInstalled(rm, modId, f, installed) ==
    [err |-> IF f # NoErr THEN f
             ELSE IF ~rm.exists \/ rm.id # modId THEN ErrNotFound
             ELSE NoErr,
     version |-> installed]

ModExists ==
    /\ kind = "mod" /\ Idle /\ d.id # NoId
    /\ \E f \in CallFailures :
          LET mod == RemoteReadMod(remote, d.id, f)
              r == resourceTurbotModExists(mod.err)
          IN Returned(d, remote,
                      [Ret("Exists", r.err, d.id, mod.err, NoParent, NotReached, 0)
                         EXCEPT !.b = r.b])

\* modInstall from its entry to the call of waitForInstallation.
ModInstallEnter(op) ==
    /\ remote.exists \/ remote.created < MaxCreates
    /\ \E parent \in DeclaredParents, version \in DeclaredVersions,
          lf \in CallFailures, f \in CallFailures :
          LET dd == [d EXCEPT !.parent = parent, !.version = version]
              target == getLatestCompatibleVersion(
                            dd.version, GetModVersions(remote, lf))
              mod == RemoteInstall(remote, parent, f)
              r == modInstallBegin(dd, target, mod)
          IN /\ d' = IF r.wait THEN dd ELSE Persist(dd)
             /\ remote' = IF r.call # NotReached
                          THEN AfterInstall(remote, mod, version) ELSE remote
             /\ IF r.wait
                THEN /\ pc' = "poll"
                     /\ w' = [NoWait EXCEPT !.op = op, !.preId = d.id,
                                            !.modId = r.modId,
                                            !.targetVersion = r.targetVersion]
                     /\ last' = Ret(op, "running", d.id, r.call, NoParent,
                                    NotReached, 0)
                ELSE /\ pc' = "idle"
                     /\ w' = NoWait
                     /\ last' = Ret(op, r.err, d.id, r.call, NoParent,
                                    NotReached, 0)
             /\ UNCHANGED <<kind, diff, ver, txt>>

\* resourceTurbotModInstall
ModInstall == kind = "mod" /\ Idle /\ d.id = NoId /\ ModInstallEnter("Install")

\* resourceTurbotModUpdate
ModUpdate == kind = "mod" /\ Idle /\ d.id # NoId /\ ModInstallEnter("Update")

\* waitForInstallation: the loop test holds; poll and compare.  w.pollErr and
\* w.seen keep what the poll answered.
WaitPoll ==
    /\ pc = "poll"
    /\ w.retryCount < maxRetries
    /\ \E f \in PollFailures, iv \in InstalledChoices :
          LET installed == getInstalledModVersion(
                               RemoteReadInstalled(remote, w.modId, f, iv))
              it == waitIteration(w.targetVersion, installed)
          IN /\ w' = [w EXCEPT !.polls = @ + 1,
                               !.pollErr = installed.err,
                               !.seen = installed.version,
                               !.err = IF it.next = "return" THEN it.err ELSE @]
             /\ pc' = IF it.next = "return" THEN "return" ELSE "sleep"
    /\ UNCHANGED <<kind, d, remote, last, diff, ver, txt>>

\* WaitSleep going round the loop without sleeping.
WaitSleep_busy ==
    /\ pc = "sleep"
    /\ w' = [w EXCEPT !.retryCount = @ + 1]
    /\ pc' = "poll"
    /\ UNCHANGED <<kind, d, remote, last, diff, ver, txt>>

\* waitForInstallation: time.Sleep(sleep); retryCount++
WaitSleep ==
    /\ pc = "sleep"
    /\ w' = [w EXCEPT !.sleeps = @ + 1, !.elapsed = @ + sleep,
                      !.retryCount = @ + 1]
    /\ pc' = "poll"
    /\ UNCHANGED <<kind, d, remote, last, diff, ver, txt>>

\* WaitTimeout with the loop test off by one.
WaitTimeout_offByOne ==
    /\ pc = "poll"
    /\ ~(w.retryCount + 1 < maxRetries)
    /\ w' = [w EXCEPT !.err = ErrTimeout]
    /\ pc' = "return"
    /\ UNCHANGED <<kind, d, remote, last, diff, ver, txt>>

\* waitForInstallation: the loop test fails; return the timeout error.
WaitTimeout ==
    /\ pc = "poll"
    /\ ~(w.retryCount < maxRetries)
    /\ w' = [w EXCEPT !.err = ErrTimeout]
    /\ pc' = "return"
    /\ UNCHANGED <<kind, d, remote, last, diff, ver, txt>>

\* modInstall from the return of waitForInstallation to its own return.
ModInstallReturn ==
    /\ pc = "return"
    /\ \E pf \in ParentFailures :
          LET parent == ReadParent(remote, d.parent, pf)
              r == modInstallEnd(d, w.modId, w.targetVersion, w.err, parent)
          IN /\ d' = Persist(r.d)
             /\ last' = [Ret(w.op, r.err, w.preId, NoErr, Resolved(parent),
                             w.err, 0)
                            EXCEPT !.target = w.targetVersion]
    /\ pc' = "idle"
    /\ w' = NoWait
    /\ UNCHANGED <<kind, remote, diff, ver, txt>>

ModRead ==
    /\ kind = "mod" /\ Idle /\ d.id # NoId
    /\ \E f \in CallFailures, lf \in CallFailures, pf \in ParentFailures :
          LET mod == RemoteReadMod(remote, d.id, f)
              target == getLatestCompatibleVersion(
                            d.version, GetModVersions(remote, lf))
              r == resourceTurbotModRead(
                       d, mod, target, ReadParent(remote, d.parent, pf))
          IN Returned(r.d, remote,
                      [Ret("Read", r.err, d.id, r.call, r.par, NotReached, 0)
                         EXCEPT !.target = target.version])

ModUninstall ==
    /\ kind = "mod" /\ Idle /\ d.id # NoId
    /\ \E f \in CallFailures :
          LET err == RemoteDelete(remote, d.id, f)
              r == resourceTurbotModUninstall(d, err)
          IN Returned(r.d, AfterDelete(remote, err),
                      Ret("Delete", r.err, d.id, err, NoParent, NotReached, 0))

ModImport ==
    /\ kind = "mod" /\ Idle /\ d.id = NoId
    /\ \E id \in ImportIds, f \in CallFailures, lf \in CallFailures,
          pf \in ParentFailures :
          LET dd == [BlankData EXCEPT !.id = id]
              mod == RemoteReadMod(remote, dd.id, f)
              target == getLatestCompatibleVersion(
                            dd.version, GetModVersions(remote, lf))
              r == resourceTurbotModImport(
                       resourceTurbotModRead(
                           dd, mod, target, ReadParent(remote, dd.parent, pf)))
          IN Returned(IF r.n = 1 THEN r.d ELSE d, remote,
                      [Ret("Import", r.err, id, NotReached, NoParent, NotReached, r.n)
                         EXCEPT !.clean = (f = NoErr /\ lf = NoErr /\ pf = NoErr)])

----------------------------------------------------------------------------
(* Control data source action.  A data source is read with its declared     *)
(* arguments on every refresh.                                              *)

ControlRead ==
    /\ kind = "control" /\ Idle
    /\ \E c \in DeclaredControls, f \in CallFailures :
          LET dd == [d EXCEPT !.cid = c.cid, !.uri = c.uri, !.resource = c.resource]
              args == controlArgs(dd)
              control == RemoteReadControl(remote, args, f)
              r == dataSourceTurbotControlRead(dd, control)
          IN Returned(r.d, remote,
                      [Ret("Read", r.err, d.id, control.err, NoParent, NotReached, 0)
                         EXCEPT !.sel = args, !.cfg = c])

----------------------------------------------------------------------------
(* The remote system changes on its own: the entity is removed out of band, *)
(* the parent's alias list is edited.                                       *)

RemoteRemove ==
    /\ remote.exists /\ Idle
    /\ remote' = [remote EXCEPT !.exists = FALSE, !.data = <<>>]
    /\ UNCHANGED <<kind, d, pc, w, last, diff, ver, txt>>

RemoteAkasChange ==
    /\ kind # "control" /\ Idle
    /\ \E a \in ParentAkasChoices \ {remote.parentAkas} :
          remote' = [remote EXCEPT !.parentAkas = a]
    /\ UNCHANGED <<kind, d, pc, w, last, diff, ver, txt>>

Next ==
    \/ ResourceExists \/ ResourceCreate \/ ResourceRead \/ ResourceUpdate
    \/ ResourceDelete \/ ResourceImport
    \/ FolderExists \/ FolderCreate \/ FolderRead \/ FolderUpdate
    \/ FolderDelete \/ FolderImport
    \/ ModExists \/ ModInstall \/ ModUpdate \/ WaitPoll \/ WaitSleep
    \/ WaitTimeout \/ ModInstallReturn \/ ModRead \/ ModUninstall \/ ModImport
    \/ ControlRead
    \/ RemoteRemove \/ RemoteAkasChange

Spec == Init /\ [][Next]_vars

----------------------------------------------------------------------------
(* Version resolution on its own: every constraint of ConstraintStrings     *)
(* against every published-version list of up to MaxVersions entries.       *)

InitVersion ==
    /\ kind = "mod" /\ d = BlankData
    /\ remote \in {r \in InitRemote("control") : ~r.exists}
    /\ pc = "idle" /\ w = NoWait /\ last = NoLast /\ diff = NoDiff /\ txt = NoTxt
    /\ ver \in {[NoVer EXCEPT !.constraint = c,
                              !.listing = [err |-> NoErr, versions |-> l]]
                : c \in ConstraintStrings,
                  l \in SeqsUpTo(PublishedVersions, MaxVersions)}

ResolveVersion ==
    /\ ~ver.done
    /\ ver' = [ver EXCEPT !.done = TRUE,
                          !.result = getLatestCompatibleVersion(
                                         ver.constraint, ver.listing)]
    /\ UNCHANGED <<kind, d, remote, pc, w, last, diff, txt>>

NextVersion == ResolveVersion

SpecVersion == InitVersion /\ [][NextVersion]_vars

----------------------------------------------------------------------------
(* The body predicates on their own: every pair of texts of BodyTexts.      *)

InitBody ==
    /\ kind = "resource" /\ d = BlankData
    /\ remote \in {r \in InitRemote("control") : ~r.exists}
    /\ pc = "idle" /\ w = NoWait /\ last = NoLast /\ diff = NoDiff /\ ver = NoVer
    /\ txt \in {[NoTxt EXCEPT !.old = o, !.new = n] : o \in BodyTexts, n \in BodyTexts}

CompareBodies ==
    /\ ~txt.done
    /\ txt' = [txt EXCEPT !.done = TRUE,
                          !.result = suppressIfBodyMatches(txt.old, txt.new)]
    /\ UNCHANGED <<kind, d, remote, pc, w, last, diff, ver>>

NextBody == CompareBodies

SpecBody == InitBody /\ [][NextBody]_vars

----------------------------------------------------------------------------
(* The body helpers composed: a text of BodyTexts is normalised, its        *)
(* properties are taken and a body is built from them.                      *)

roundTrip(x) ==
    LET p == propertiesFromBody(formatBody(x)) IN
    IF p.err # NoErr THEN [err |-> p.err, body |-> EmptyString]
    ELSE [err |-> NoErr, body |-> bodyFromProperties(p.properties)]

InitRound ==
    /\ kind = "resource" /\ d = BlankData
    /\ remote \in {r \in InitRemote("control") : ~r.exists}
    /\ pc = "idle" /\ w = NoWait /\ last = NoLast /\ diff = NoDiff /\ ver = NoVer
    /\ txt \in {[NoTxt EXCEPT !.old = o] : o \in BodyTexts}

RoundTrip ==
    /\ ~txt.done
    /\ txt' = [txt EXCEPT !.done = TRUE, !.round = roundTrip(txt.old)]
    /\ UNCHANGED <<kind, d, remote, pc, w, last, diff, ver>>

NextRound == RoundTrip

SpecRound == InitRound /\ [][NextRound]_vars

----------------------------------------------------------------------------
(* The parent predicate on its own: the host's change detection calls it    *)
(* with the stored value as old, the declared value as new and the stored   *)
(* parent_akas; every list of up to MaxAkas names.                          *)

AkaNames == {"aka1", "aka2", ParentId}

InitDiff ==
    /\ kind = "folder" /\ d = BlankData
    /\ remote \in {r \in InitRemote("control") : ~r.exists}
    /\ pc = "idle" /\ w = NoWait /\ last = NoLast /\ ver = NoVer /\ txt = NoTxt
    /\ diff \in {[NoDiff EXCEPT !.old = o, !.new = n, !.akas = a]
                 : o \in AkaNames, n \in AkaNames, a \in SeqsUpTo(AkaNames, MaxAkas)}

CompareParent ==
    /\ ~diff.done
    /\ diff' = [diff EXCEPT
                  !.done = TRUE,
                  !.result = supressIfParentAkaMatches(
                                 diff.old, diff.new,
                                 [BlankData EXCEPT !.parent_akas = diff.akas])]
    /\ UNCHANGED <<kind, d, remote, pc, w, last, ver, txt>>

NextDiff == CompareParent

SpecDiff == InitDiff /\ [][NextDiff]_vars

----------------------------------------------------------------------------
(* Claims.                                                                  *)

\* Entries of list l that are available, parse, and satisfy constraint c.
Eligible(c, l) ==
    {i \in 1..Len(l) : /\ l[i].status = "available"
                       /\ VersionParses(l[i].version)
                       /\ Check(c, NewVersion(l[i].version))}

\* C1: version resolution returns the maximum, by semantic-version order, of
\* the available entries that satisfy the constraint, whatever the order of
\* the list, and the empty string when there is none.
C1_ResolvesMaximum ==
    (ver.done /\ ver.result.err = NoErr) =>
        LET l == ver.listing.versions
            E == Eligible(ver.constraint, l)
        IN IF E = {} THEN ver.result.version = EmptyString
           ELSE \E i \in E :
                   /\ ver.result.version = l[i].version
                   /\ \A j \in E : Compare(NewVersion(l[j].version),
                                           NewVersion(l[i].version)) <= 0

InstallOps == {"Install", "Update"}

\* C2: when the convergence wait of a mod install or update ends in the
\* timeout or in a polling error, the operation returns that error; it
\* returns nil only when the wait converged.
C2_WaitFailureAborts ==
    (last.op \in InstallOps /\ last.wait \notin {NotReached, NoErr}) =>
        last.err = last.wait

\* C3: when every poll succeeds and never sees the target version, the wait
\* makes exactly maxRetries polls, never more, sleeps maxRetries full
\* intervals and returns the timeout error.
C3_TimeoutAfterBudget ==
    /\ w.polls <= maxRetries
    /\ (pc = "return" /\ w.pollErr = NoErr /\ w.seen # w.targetVersion) =>
           /\ w.err = ErrTimeout
           /\ w.polls = maxRetries
           /\ w.sleeps = maxRetries
           /\ w.elapsed = maxRetries * sleep
    /\ (pc = "return" /\ w.err = ErrTimeout) =>
           (w.polls = maxRetries /\ w.pollErr = NoErr /\ w.seen # w.targetVersion)

C3_Witness == pc = "return" /\ w.err = ErrTimeout /\ w.polls = maxRetries

\* C4: the first poll that sees the target version ends the wait with nil:
\* no poll and no sleep follow it; seen at the first poll, one poll and no
\* sleep happened.
C4_ConvergedAtOnce ==
    (w.polls > 0 /\ w.pollErr = NoErr /\ w.seen = w.targetVersion) =>
        /\ pc = "return"
        /\ w.err = NoErr
        /\ w.sleeps = w.polls - 1
        /\ w.elapsed = (w.polls - 1) * sleep

C4_Witness ==
    /\ pc = "return" /\ w.polls = 1 /\ w.sleeps = 0
    /\ w.pollErr = NoErr /\ w.seen = w.targetVersion /\ w.err = NoErr

\* C5: a failed poll ends the wait at once with the poll's error: no poll and
\* no sleep follow it, and the error is not the timeout.
C5_PollErrorReturned ==
    (w.pollErr # NoErr) =>
        /\ pc = "return"
        /\ w.err = w.pollErr
        /\ w.err # ErrTimeout
        /\ w.sleeps = w.polls - 1

C5_Witness ==
    pc = "return" /\ w.pollErr = ErrTransport /\ w.err = ErrTransport /\ w.polls = 3

\* C6: when the parent has no recorded aliases, a successful parent alias
\* resolution stores the one-element list of the parent id in parent_akas.
C6_FallsBackToParentId ==
    (/\ last.op \in {"Create", "Read", "Update"} \cup InstallOps
     /\ last.err = NoErr /\ last.par.read /\ last.par.akas.nil) =>
        d.parent_akas = <<last.par.id>>

\* C7: the parent predicate answers true exactly when the stored parent_akas
\* is set, not empty and holds the new value; the old value plays no part.
C7_ParentMatches ==
    diff.done => (diff.result <=> diff.new \in Range(diff.akas))

C7_Witness ==
    /\ diff.done /\ diff.result /\ diff.old # diff.new
    /\ Len(diff.akas) = 2 /\ diff.akas[2] = diff.new /\ diff.akas[1] # diff.new

C9_NotFoundReadSucceeds ==
    (last.op = "Read" /\ last.call = ErrNotFound) =>
        (d.id = NoId /\ last.err = NoErr)

\* C10: Delete clears the local id exactly when the remote delete or
\* uninstall call succeeded; when the call fails, also for an entity that is
\* missing, Delete returns the call's error and keeps the local id.
C10_DeleteClearsOnSuccess ==
    (last.op = "Delete") =>
        /\ last.preId # NoId
        /\ last.call = NoErr => (d.id = NoId /\ last.err = NoErr)
        /\ last.call # NoErr => (d.id = last.preId /\ last.err = last.call)

C10_Witness ==
    /\ last.op = "Delete" /\ last.call = ErrNotFound
    /\ d.id = last.preId /\ last.err = ErrNotFound /\ ~remote.exists

\* C11: Import of an id whose entity exists remotely, from a local state
\* that holds nothing but that id, succeeds with exactly one state, the one
\* Read built for that id, when no remote call fails; and Import returns an
\* error and no state exactly when it does not return that one state.  Stated
\* for the resource and the folder, whose Import and Read the claim names.
C11_ImportAdopts ==
    (last.op = "Import" /\ kind \in {"resource", "folder"}) =>
        /\ (last.err = NoErr) <=> (last.n = 1)
        /\ (last.err # NoErr) <=> (last.n = 0)
        /\ last.n = 1 => d.id = last.preId
        /\ (last.clean /\ remote.exists /\ remote.id = last.preId) =>
               (last.err = NoErr /\ last.n = 1 /\ d.id = last.preId)

\* C12: the control read selects by the pair (declared uri, declared
\* resource) when both are declared non-empty and by the declared id
\* otherwise; the pair's resourceId is the declared resource, not the uri.
C12_SelectorFromDeclared ==
    (kind = "control" /\ last.op = "Read") =>
        IF last.cfg.uri # "" /\ last.cfg.resource # ""
        THEN last.sel = [by |-> "pair", id |-> NoId, uri |-> last.cfg.uri,
                         resourceId |-> last.cfg.resource]
        ELSE last.sel = [by |-> "id", id |-> last.cfg.cid, uri |-> "",
                         resourceId |-> ""]

\* The alias list resolved for a parent: its akas, or the parent id alone
\* when it has none.
ResolvedAkas(par) ==
    IF par.akas.nil \/ par.akas.list = <<>> THEN <<par.id>> ELSE par.akas.list

\* C13: after a successful create, read or update (install, for a mod) the
\* stored parent_akas is the alias list resolved for the parent by that
\* operation, and a mod's latest_compatible_version is the version that
\* operation resolved; neither is left stale or unset.
C13_DerivedInSync ==
    (/\ kind \in {"resource", "folder", "mod"}
     /\ last.op \in {"Create", "Read", "Update", "Install"}
     /\ last.err = NoErr) =>
        /\ last.par.read
        /\ d.parent_akas = ResolvedAkas(last.par)
        /\ kind = "mod" => d.latest_compatible_version = last.target

\* Entries of list l that are available and do not parse as a version.
Unparseable(l) ==
    {i \in 1..Len(l) : l[i].status = "available" /\ ~VersionParses(l[i].version)}

\* C14: when an available entry does not parse as a semantic version,
\* resolution returns an error and no version, wherever the entry stands and
\* whatever the other entries are; entries that are not available are never
\* parsed, so a list whose available entries all parse resolves without error.
C14_UnparseableAborts ==
    ver.done =>
        LET l == ver.listing.versions
            ok == ver.listing.err = NoErr /\ ConstraintParses(ver.constraint)
        IN /\ Unparseable(l) # {} =>
                  (ver.result.err # NoErr /\ ver.result.version = EmptyString)
           /\ (ok /\ Unparseable(l) # {}) => ver.result.err = ErrVersion
           /\ (ok /\ Unparseable(l) = {}) => ver.result.err = NoErr

C14_Witness ==
    /\ ver.done /\ ver.constraint = [op |-> "any", v |-> EmptyString]
    /\ ver.listing.versions =
           <<[version |-> <<1, 0, 0>>, status |-> "available"],
             [version |-> <<1, 0, 0, 0>>, status |-> "available"],
             [version |-> <<2, 0, 0>>, status |-> "available"]>>
    /\ ver.result = [version |-> EmptyString, err |-> ErrVersion]

\* C15: in every run of the convergence wait a poll is made only after as
\* many full sleep intervals as there were polls before it, so any two
\* consecutive polls are one sleep of 20 seconds apart, and the polls of a
\* run never exceed the retry budget of 40.
C15_PollsOneSleepApart ==
    [][/\ w'.polls = w.polls + 1 =>
              (w.sleeps = w.polls /\ w.elapsed = w.polls * sleep)
       /\ w'.sleeps = w.sleeps + 1 =>
              (w.polls = w.sleeps + 1 /\ w'.elapsed = w.elapsed + sleep)
       /\ w'.polls <= maxRetries]_vars

C15_Witness ==
    /\ pc = "sleep" /\ w.polls = maxRetries
    /\ w.sleeps = maxRetries - 1 /\ w.elapsed = (maxRetries - 1) * sleep

\* C16: a Read that fails with an error other than NotFound, be it from the
\* remote read, from the parent alias resolution or from parsing the stored
\* body, returns that error and leaves the local id as it was.
C16_ReadErrorKeepsId ==
    (last.op = "Read") =>
        /\ last.err \notin {NoErr, ErrNotFound} => d.id = last.preId
        /\ last.call \notin {NoErr, NotReached, ErrNotFound} =>
               last.err = last.call
        /\ (last.par.read /\ last.par.err \notin {NoErr, ErrNotFound}) =>
               last.err = last.par.err
        /\ (kind = "resource" /\ last.call = NotReached) =>
               /\ propertiesFromBody(d.body).err # NoErr
               /\ last.err = propertiesFromBody(d.body).err

C16_Witness ==
    /\ kind = "resource" /\ last.op = "Read"
    /\ last.call = ErrTransport /\ last.err = ErrTransport
    /\ d.id = last.preId /\ d.id # NoId

\* C17: Create resolves the parent alias list before it issues the remote
\* create and persists id, body and akas only after it; hence a step that
\* creates the remote entity is a Create whose parent alias resolution
\* succeeded, and a Create whose resolution failed creates nothing.
C17_ParentResolvedBeforeCreate ==
    [][(kind \in {"resource", "folder"} /\ remote'.created = remote.created + 1) =>
           /\ last'.op = "Create" /\ last'.call = NoErr
           /\ last'.par.read /\ last'.par.err = NoErr
           /\ d'.id = remote'.id]_vars

\* C18: once the remote install call of a mod install or update has
\* succeeded and returned the mod's id, the operation ends with that id as
\* the local id, however the convergence wait ended, the timeout included.
C18_IdKeptAfterInstall ==
    (last.op \in InstallOps /\ last.call = NoErr /\ last.wait # NotReached) =>
        (d.id = remote.id /\ d.id # NoId)

\* C19: after every successful Create, Update or Read of a resource the
\* stored body is in normalized form, formatBody(body) = body, whenever the
\* declared body parses as a JSON object; Update stores the normalized body
\* as Create does.
C19_StoredBodyNormalized ==
    (/\ kind = "resource" /\ last.op \in {"Create", "Update", "Read"}
     /\ last.err = NoErr /\ Unmarshal(d.body).err = NoErr) =>
        formatBody(d.body) = d.body

\* C20 as stated: for every valid JSON object x the body built from the
\* properties of the normalised x is structurally equal to x, the same
\* top-level keys with the same values.
C20_RoundTripEqual ==
    (txt.done /\ Unmarshal(txt.old).err = NoErr) =>
        /\ txt.round.err = NoErr
        /\ Unmarshal(txt.round.body).err = NoErr
        /\ Unmarshal(txt.round.body).data = Unmarshal(txt.old).data

\* C20 amended: for every valid JSON object x the body built from the
\* properties of the normalised x is an object with the same top-level keys
\* as x, each with its own key name as value.
C20_RoundTripKeys ==
    (txt.done /\ Unmarshal(txt.old).err = NoErr) =>
        LET x == Unmarshal(txt.old).data
            r == Unmarshal(txt.round.body)
        IN /\ txt.round.err = NoErr
           /\ r.err = NoErr
           /\ DOMAIN r.data = DOMAIN x
           /\ \A k \in DOMAIN x : r.data[k] = k

C20_Witness ==
    /\ txt.done
    /\ txt.old = CompactText(<<<<"\"b\"", "1.0">>, <<"\"a\"", "1">>>>)
    /\ txt.round.err = NoErr
    /\ txt.round.body = IndentedText(<<<<"\"a\"", "\"a\"">>, <<"\"b\"", "\"b\"">>>>)

\* C21: a mod install or update whose version resolution fails (the listing
\* fails, the constraint or an available version does not parse) issues no
\* remote install call and makes no poll, and leaves the local id,
\* parent_akas and latest_compatible_version as they were.
C21_ResolutionBeforeInstall ==
    [][((ModInstall \/ ModUpdate)
        /\ (last'.err \in {ErrConstraint, ErrVersion} \/ last'.call = NotReached)) =>
           /\ last'.call = NotReached /\ last'.err # NoErr
           /\ remote' = remote
           /\ pc' = "idle" /\ w' = NoWait
           /\ d'.id = d.id
           /\ d'.parent_akas = d.parent_akas
           /\ d'.latest_compatible_version = d.latest_compatible_version]_vars

C21_Witness ==
    /\ last.op = "Update" /\ last.err = ErrConstraint /\ last.call = NotReached
    /\ d.id # NoId /\ d.id = last.preId
    /\ d.latest_compatible_version # EmptyString /\ d.parent_akas # <<>>
    /\ remote.exists /\ pc = "idle"

\* C22: when no available version satisfies the constraint, the install or
\* update still issues the remote install call and waits with the empty
\* target version; an unset installed version is polled as the empty string,
\* so the wait ends with nil at the first poll that finds the mod without an
\* installed version and goes on after a poll that finds one; the operation
\* then records an empty latest_compatible_version.
C22_EmptyTargetConverges ==
    /\ (pc # "idle" /\ Eligible(d.version, remote.catalog) = {}) =>
           /\ w.targetVersion = EmptyString
           /\ w.modId # NoId /\ remote.exists /\ remote.id = w.modId
    /\ (pc # "idle" /\ w.targetVersion = EmptyString /\ w.polls > 0
                    /\ w.pollErr = NoErr /\ w.seen = EmptyString) =>
           (pc = "return" /\ w.err = NoErr)
    /\ (pc = "sleep" /\ w.targetVersion = EmptyString) => w.seen # EmptyString
    /\ (last.op \in InstallOps /\ last.err = NoErr /\ last.target = EmptyString) =>
           (d.latest_compatible_version = EmptyString /\ d.id = remote.id
            /\ last.call = NoErr)

C22_Witness ==
    /\ last.op = "Install" /\ last.err = NoErr /\ last.wait = NoErr
    /\ last.target = EmptyString /\ d.version = [op |-> "caret", v |-> <<3, 0, 0>>]
    /\ remote.catalog # <<>> /\ Eligible(d.version, remote.catalog) = {}
    /\ d.id # NoId /\ d.latest_compatible_version = EmptyString

====
